---- MODULE Spec2Model ----
(***************************************************************************)
(* Model of the readiness rule engine of jiracsv (analysis/checks.go).     *)
(*                                                                         *)
(* NewCheckResult builds a fresh CheckResult, short-circuits on an         *)
(* Obsolete issue and otherwise runs a fixed list of check functions over  *)
(* the IssueAnalysis snapshot.  Each check reads the snapshot and merges   *)
(* its verdict into the CheckResult through SetReady, SetStatus and        *)
(* AddMessage.                                                             *)
(***************************************************************************)
EXTENDS Integers, Sequences, FiniteSets, TLC

VARIABLES
    a,        \* the *IssueAnalysis handed to NewCheckResult (issue fields flattened in)
    result,   \* the *CheckResult being built
    pending,  \* the checks the range loop has not called yet
    pc,       \* where the caller / NewCheckResult stands
    written   \* the diagnostic codes writeIssues has handed to the csv writer

vars == <<a, result, pending, pc, written>>

----------------------------------------------------------------------------
(* Bounds of the model.                                                    *)

MaxDeviations == 2   \* snapshot fields that may differ from a base snapshot
MaxVersions == 2     \* length of Issue.Fields.FixVersions
MaxLinked == 1       \* length of Issue.LinkedIssues
MaxCount == 1        \* completion counters and NumActivities
MaxMessages == 3     \* messages a free client of the accumulator appends
MaxWindow == 2       \* how far ahead a reordered loop may reach for its next check
MaxEvaluations == 2  \* evaluations a caller runs at the same time

----------------------------------------------------------------------------
(* CheckResultStatus (checks.go:12-24): an int enumeration built by iota.  *)

CheckStatusNone == 0
CheckStatusGreen == 1
CheckStatusYellow == 2
CheckStatusRed == 3

CheckResultStatus == {CheckStatusNone, CheckStatusGreen, CheckStatusYellow, CheckStatusRed}

String(s) ==
    CASE s = CheckStatusNone -> "NONE"
      [] s = CheckStatusGreen -> "GREEN"
      [] s = CheckStatusYellow -> "YELLOW"
      [] s = CheckStatusRed -> "RED"
      [] OTHER -> "UNKOWN"

----------------------------------------------------------------------------
(* The jira package: issue statuses, types and the predicates the checks   *)
(* call.  A pointer is a set with at most one element ({} is nil).         *)

IssueStatusObsolete == "Obsolete"
IssueStatusDone == "Done"
IssueStatusInProgress == "In Progress"
IssueStatusBacklog == "Backlog"
IssueStatuses ==
    {IssueStatusObsolete, IssueStatusDone, IssueStatusInProgress, IssueStatusBacklog}

IssueTypeEpic == "Epic"
IssueTypeStory == "Story"
IssueTypeTask == "Task"
IssueTypes == {IssueTypeEpic, IssueTypeStory, IssueTypeTask}

InStatus(issue, s) == issue.Status = s

IsActive(issue) == issue.Status = IssueStatusInProgress

IsType(issue, t) == issue.Type = t

Approved(issue) == issue.Approved

IsPrioritized(issue) == issue.Prioritized

HasComponent(issue, name) ==
    \E k \in 1..Len(issue.Components) : issue.Components[k] = name

AnyImpediment(issues) ==
    \E k \in 1..Len(issues) : issues[k].Impediment

(* The callback f is a function from the issues of the list to BOOLEAN.    *)
FilterByFunction(issues, f) == LET keep(issue) == f[issue] IN SelectSeq(issues, keep)

(* The receiver's own elements after the call, filtered in place: the     *)
(* kept issues move to the front of its backing array.                     *)
FilterByFunctionReceiver_InPlace(issues, f) ==
    LET kept == FilterByFunction(issues, f)
    IN  kept \o SubSeq(issues, Len(kept) + 1, Len(issues))

(* The receiver after the call: the result is a collection of its own.     *)
FilterByFunctionReceiver(issues, f) == issues

Elements(issues) == {issues[k] : k \in 1..Len(issues)}

(* strings.HasPrefix over strings held as sequences of characters.         *)
HasPrefix(s, prefix) ==
    /\ Len(s) >= Len(prefix)
    /\ SubSeq(s, 1, Len(prefix)) = prefix

Alongside == <<"A", "l", "o", "n", "g", "s", "i", "d", "e">>

----------------------------------------------------------------------------
(* The accumulator (checks.go:26-30, 90-110).                              *)

NewResult == [Ready |-> TRUE, Status |-> CheckStatusNone, Messages |-> <<>>]

(* SetReady as a plain assignment.                                         *)
SetReady_Assign(r, ready) == [r EXCEPT !.Ready = ready]

SetReady(r, ready) ==
    IF r.Ready /\ ~ready THEN [r EXCEPT !.Ready = FALSE] ELSE r

(* SetStatus as a plain assignment.                                        *)
SetStatus_Assign(r, status) == [r EXCEPT !.Status = status]

SetStatus(r, status) ==
    IF status > r.Status THEN [r EXCEPT !.Status = status] ELSE r

(* AddMessage putting the code in front.                                   *)
AddMessage_Prepend(r, message) ==
    [r EXCEPT !.Messages = <<message>> \o r.Messages]

AddMessage(r, message) ==
    [r EXCEPT !.Messages = Append(r.Messages, message)]

----------------------------------------------------------------------------
(* The checks (checks.go:112-317).  Each takes the accumulator and the     *)
(* snapshot and returns the accumulator after the check.                   *)

RECURSIVE alongsideLoop(_, _, _)
alongsideLoop(r, versions, k) ==
    IF k > Len(versions) THEN r
    ELSE IF HasPrefix(versions[k], Alongside) THEN AddMessage(r, "ALONGSIDE")
    ELSE alongsideLoop(r, versions, k + 1)

(* checkAlongside without the return of its loop: one code per version.   *)
checkAlongside_EachVersion(r, an) ==
    LET n == Cardinality({k \in 1..Len(an.FixVersions) :
                            HasPrefix(an.FixVersions[k], Alongside)})
    IN  [r EXCEPT !.Messages = r.Messages \o [i \in 1..n |-> "ALONGSIDE"]]

checkAlongside(r, an) == alongsideLoop(r, an.FixVersions, 1)

checkVersion(r, an) ==
    LET r1 == IF Len(an.FixVersions) = 0
              THEN AddMessage(SetReady(r, FALSE), "NOVERSION")
              ELSE r
    IN  IF Len(an.FixVersions) > 1 THEN AddMessage(r1, "MULTIVERSION") ELSE r1

checkActivities(r, an) ==
    IF IsType(an, IssueTypeEpic) /\ an.NumActivities = 0
    THEN AddMessage(SetReady(r, FALSE), "NOSTORIES")
    ELSE r

checkDescription(r, an) ==
    IF an.Description = ""
    THEN AddMessage(SetReady(r, FALSE), "NODESCRIPTION")
    ELSE r

checkApprovals(r, an) ==
    IF IsType(an, IssueTypeEpic) /\ ~Approved(an)
    THEN AddMessage(SetReady(r, FALSE), "NOACKS")
    ELSE r

checkDeliveryOwner(r, an) ==
    IF an.Owner = ""
    THEN AddMessage(SetStatus(SetReady(r, FALSE), CheckStatusRed), "NODELIVERYOWNER")
    ELSE r

checkPlanningFlags(r, an) ==
    LET r1 == IF an.NoQE THEN AddMessage(r, "NOQE") ELSE r
        r2 == IF an.NoFeature THEN AddMessage(r1, "NOFEATURE") ELSE r1
    IN  IF an.NoDoc THEN AddMessage(r2, "NODOC") ELSE r2

(* checkQAContact without the SetStatus(CheckStatusRed) of its else branch. *)
checkQAContact_NoRed(r, an) ==
    IF an.NoQE
    THEN IF an.QAContact # ""
         THEN AddMessage(SetReady(r, FALSE), "NOQEMISMATCH")
         ELSE r
    ELSE IF an.QAContact = ""
         THEN AddMessage(SetReady(r, FALSE), "NOQACONTACT")
         ELSE r

checkQAContact(r, an) ==
    IF an.NoQE
    THEN IF an.QAContact # ""
         THEN AddMessage(SetReady(r, FALSE), "NOQEMISMATCH")
         ELSE r
    ELSE IF an.QAContact = ""
         THEN AddMessage(SetStatus(SetReady(r, FALSE), CheckStatusRed), "NOQACONTACT")
         ELSE r

checkAcceptanceCriteria(r, an) ==
    IF an.Acceptance = ""
    THEN AddMessage(SetStatus(SetReady(r, FALSE), CheckStatusRed), "NOCRITERIA")
    ELSE r

checkPriority(r, an) ==
    IF ~IsPrioritized(an)
    THEN AddMessage(SetStatus(SetReady(r, FALSE), CheckStatusRed), "NOPRIORITY")
    ELSE r

(* checkStarted raising to RED.                                            *)
checkStarted_Red(r, an) ==
    IF ~IsActive(an) /\ ~InStatus(an, IssueStatusDone)
    THEN AddMessage(SetStatus(r, CheckStatusRed), "NOTSTARTED")
    ELSE r

checkStarted(r, an) ==
    IF ~IsActive(an) /\ ~InStatus(an, IssueStatusDone)
    THEN AddMessage(SetStatus(r, CheckStatusYellow), "NOTSTARTED")
    ELSE r

(* checkStoryPoints with a misspelt code.                                  *)
checkStoryPoints_Typo(r, an) ==
    IF an.PointsCompletion.Unknown > 0
    THEN AddMessage(r, "NOSTORYPOINT")
    ELSE r

checkStoryPoints(r, an) ==
    IF an.PointsCompletion.Unknown > 0
    THEN AddMessage(r, "NOSTORYPOINTS")
    ELSE r

(* checkImpediment marking the issue not ready as well.                    *)
checkImpediment_NotReady(r, an) ==
    IF an.Impediment \/ AnyImpediment(an.LinkedIssues)
    THEN AddMessage(SetStatus(SetReady(r, FALSE), CheckStatusRed), "IMPEDIMENT")
    ELSE r

checkImpediment(r, an) ==
    IF an.Impediment \/ AnyImpediment(an.LinkedIssues)
    THEN AddMessage(SetStatus(r, CheckStatusRed), "IMPEDIMENT")
    ELSE r

checkInitiative(r, an) ==
    IF IsType(an, IssueTypeEpic) /\ an.ParentLink = ""
    THEN AddMessage(SetReady(r, FALSE), "NOINITIATIVE")
    ELSE r

checkIssueComponent(r, an) ==
    IF an.IssueNoComponent
    THEN AddMessage(SetReady(r, FALSE), "ISSUENOCOMPONENT")
    ELSE r

(* checkComponent looking at the first component only.                     *)
checkComponent_FirstOnly(r, an) ==
    IF an.Component = {} THEN r
    ELSE LET target == CHOOSE c \in an.Component : TRUE
             missing == ~(Len(an.Components) > 0 /\ an.Components[1] = target)
         IN  IF missing
             THEN AddMessage(SetStatus(SetReady(r, FALSE), CheckStatusYellow), "NOCOMPONENT")
             ELSE r

checkComponent(r, an) ==
    IF an.Component = {} THEN r
    ELSE LET target == CHOOSE c \in an.Component : TRUE
             missing == ~\E k \in 1..Len(an.Components) : an.Components[k] = target
         IN  IF missing
             THEN AddMessage(SetStatus(SetReady(r, FALSE), CheckStatusYellow), "NOCOMPONENT")
             ELSE r

(* checkDone with && between the two comparisons.                          *)
checkDone_And(r, an) ==
    IF ~InStatus(an, IssueStatusDone) THEN r
    ELSE IF /\ an.IssuesCompletion.Status # an.IssuesCompletion.Total
            /\ an.PointsCompletion.Status # an.PointsCompletion.Total
         THEN AddMessage(SetStatus(r, CheckStatusRed), "NOTDONE")
         ELSE SetStatus(r, CheckStatusGreen)

checkDone(r, an) ==
    IF ~InStatus(an, IssueStatusDone) THEN r
    ELSE IF \/ an.IssuesCompletion.Status # an.IssuesCompletion.Total
            \/ an.PointsCompletion.Status # an.PointsCompletion.Total
         THEN AddMessage(SetStatus(r, CheckStatusRed), "NOTDONE")
         ELSE SetStatus(r, CheckStatusGreen)

(* checkStatusComment storing the comment severity into the field.         *)
checkStatusComment_Assign(r, an) ==
    IF an.CommentStatus = CheckStatusNone
    THEN AddMessage(r, "NOSTATUSCOMMENT")
    ELSE [r EXCEPT !.Status = an.CommentStatus]

checkStatusComment(r, an) ==
    IF an.CommentStatus = CheckStatusNone
    THEN AddMessage(r, "NOSTATUSCOMMENT")
    ELSE SetStatus(r, an.CommentStatus)

checkLinkedEpic(r, an) ==
    IF ~IsType(an, IssueTypeStory) THEN r
    ELSE IF an.Epic = {} \/ (CHOOSE e \in an.Epic : TRUE).Key = ""
         THEN AddMessage(SetReady(r, FALSE), "NOEPIC")
         ELSE r

(* checkStartedStories without the filter by component.                    *)
checkStartedStories_NoFilter(r, an) ==
    IF ~IsType(an, IssueTypeEpic) \/ ~IsActive(an) THEN r
    ELSE LET activeOrDone == [li \in Elements(an.LinkedIssues) |->
                                 IsActive(li) \/ InStatus(li, IssueStatusDone)]
             activeIssues == FilterByFunction(an.LinkedIssues, activeOrDone)
         IN  IF Len(activeIssues) = 0
             THEN AddMessage(SetStatus(r, CheckStatusRed), "NOACTIVESTORIES")
             ELSE r

checkStartedStories(r, an) ==
    IF ~IsType(an, IssueTypeEpic) \/ ~IsActive(an) THEN r
    ELSE LET inComponent == [li \in Elements(an.LinkedIssues) |->
                                HasComponent(li, CHOOSE c \in an.Component : TRUE)]
             linkedIssues == IF an.Component # {}
                             THEN FilterByFunction(an.LinkedIssues, inComponent)
                             ELSE an.LinkedIssues
             activeOrDone == [li \in Elements(linkedIssues) |->
                                 IsActive(li) \/ InStatus(li, IssueStatusDone)]
             activeIssues == FilterByFunction(linkedIssues, activeOrDone)
         IN  IF Len(activeIssues) = 0
             THEN AddMessage(SetStatus(r, CheckStatusRed), "NOACTIVESTORIES")
             ELSE r

(* checkDesign that does not look at the no-feature flag.                  *)
checkDesign_AnyFeature(r, an) ==
    IF an.Design = ""
    THEN AddMessage(SetReady(r, FALSE), "NODESIGN")
    ELSE r

checkDesign(r, an) ==
    IF ~an.NoFeature /\ an.Design = ""
    THEN AddMessage(SetReady(r, FALSE), "NODESIGN")
    ELSE r

(* The slice with checkDeliveryOwner ahead of checkPlanningFlags and       *)
(* checkStatusComment and checkLinkedEpic ahead of checkStartedStories.    *)
checks_Reordered ==
    << "checkAlongside", "checkVersion", "checkActivities", "checkDescription",
       "checkApprovals", "checkDeliveryOwner", "checkPlanningFlags",
       "checkQAContact", "checkAcceptanceCriteria", "checkPriority",
       "checkStarted", "checkStoryPoints", "checkImpediment", "checkInitiative",
       "checkIssueComponent", "checkComponent", "checkDone",
       "checkStatusComment", "checkLinkedEpic", "checkStartedStories",
       "checkDesign" >>

(* The slice built at checks.go:59-81, by name, in its declared order.     *)
checks ==
    << "checkAlongside", "checkVersion", "checkActivities", "checkDescription",
       "checkApprovals", "checkPlanningFlags", "checkDeliveryOwner",
       "checkQAContact", "checkAcceptanceCriteria", "checkPriority",
       "checkStarted", "checkStoryPoints", "checkImpediment", "checkInitiative",
       "checkIssueComponent", "checkComponent", "checkDone",
       "checkStartedStories", "checkLinkedEpic", "checkStatusComment",
       "checkDesign" >>

(* f(a) for an element f of the slice.                                     *)
Call(f, r, an) ==
    CASE f = "checkAlongside" -> checkAlongside(r, an)
      [] f = "checkVersion" -> checkVersion(r, an)
      [] f = "checkActivities" -> checkActivities(r, an)
      [] f = "checkDescription" -> checkDescription(r, an)
      [] f = "checkApprovals" -> checkApprovals(r, an)
      [] f = "checkPlanningFlags" -> checkPlanningFlags(r, an)
      [] f = "checkDeliveryOwner" -> checkDeliveryOwner(r, an)
      [] f = "checkQAContact" -> checkQAContact(r, an)
      [] f = "checkAcceptanceCriteria" -> checkAcceptanceCriteria(r, an)
      [] f = "checkPriority" -> checkPriority(r, an)
      [] f = "checkStarted" -> checkStarted(r, an)
      [] f = "checkStoryPoints" -> checkStoryPoints(r, an)
      [] f = "checkImpediment" -> checkImpediment(r, an)
      [] f = "checkInitiative" -> checkInitiative(r, an)
      [] f = "checkIssueComponent" -> checkIssueComponent(r, an)
      [] f = "checkComponent" -> checkComponent(r, an)
      [] f = "checkDone" -> checkDone(r, an)
      [] f = "checkStartedStories" -> checkStartedStories(r, an)
      [] f = "checkLinkedEpic" -> checkLinkedEpic(r, an)
      [] f = "checkStatusComment" -> checkStatusComment(r, an)
      [] f = "checkDesign" -> checkDesign(r, an)

(* The snapshot behind the pointer a after f(a).  No check assigns through *)
(* a (checks.go:112-317); checkStartedStories alone hands a list of the    *)
(* snapshot to a method as its receiver (checks.go:291-300): either the    *)
(* component filter or, with no target component, the status filter.       *)
SnapshotAfter(f, an) ==
    IF f # "checkStartedStories" \/ ~IsType(an, IssueTypeEpic) \/ ~IsActive(an)
    THEN an
    ELSE LET inComponent == [li \in Elements(an.LinkedIssues) |->
                                HasComponent(li, CHOOSE c \in an.Component : TRUE)]
             activeOrDone == [li \in Elements(an.LinkedIssues) |->
                                 IsActive(li) \/ InStatus(li, IssueStatusDone)]
         IN  [an EXCEPT !.LinkedIssues =
                 IF an.Component # {}
                 THEN FilterByFunctionReceiver(an.LinkedIssues, inComponent)
                 ELSE FilterByFunctionReceiver(an.LinkedIssues, activeOrDone)]

(* NewCheckResult as a function of the snapshot (checks.go:48-88).         *)
RECURSIVE RunAll(_, _, _)
RunAll(fs, r, an) ==
    IF fs = <<>> THEN r ELSE RunAll(Tail(fs), Call(Head(fs), r, an), an)

NewCheckResult(an) ==
    IF InStatus(an, IssueStatusObsolete)
    THEN AddMessage(NewResult, "OBSOLETE")
    ELSE RunAll(checks, NewResult, an)

----------------------------------------------------------------------------
(* The snapshots the model evaluates.  NewIssueAnalysis(i, component)      *)
(* produces an IssueAnalysis; every field the checks read is a field of    *)
(* the record below.                                                       *)

SeqsUpTo(S, n) == UNION {[1..k -> S] : k \in 0..n}

VersionNames ==
    { Alongside \o <<" ", "4">>,      \* "Alongside 4"
      <<"4", ".", "6">>,              \* "4.6"
      <<"A", "l", "o", "n", "g">> }   \* "Along"

ComponentLists == {<<>>, <<"Core">>, <<"Other">>, <<"Other", "Core">>}

LinkedUniverse ==
    { [Status |-> IssueStatusBacklog, Components |-> <<"Core">>, Impediment |-> FALSE],
      [Status |-> IssueStatusInProgress, Components |-> <<"Other">>, Impediment |-> FALSE],
      [Status |-> IssueStatusDone, Components |-> <<"Core">>, Impediment |-> TRUE] }

(* Closed and unestimated children are counted among all children.         *)
Completions ==
    {c \in [Status : 0..MaxCount, Total : 0..MaxCount] : c.Status <= c.Total}

PointsCompletions ==
    {c \in [Status : 0..MaxCount, Total : 0..MaxCount, Unknown : 0..MaxCount] :
        c.Status + c.Unknown <= c.Total}

VersionLists == SeqsUpTo(VersionNames, MaxVersions)

LinkedLists == SeqsUpTo(LinkedUniverse, MaxLinked)

Counts == 0..MaxCount

FieldNames ==
    << "Status", "Type", "FixVersions", "NumActivities", "Description", "Approved",
       "Owner", "NoQE", "NoFeature", "NoDoc", "QAContact", "Acceptance",
       "Prioritized", "PointsCompletion", "IssuesCompletion", "Impediment",
       "LinkedIssues", "ParentLink", "IssueNoComponent", "Component",
       "Components", "CommentStatus", "Epic", "Design" >>

FieldValues(f) ==
    CASE f = "Status" -> IssueStatuses
      [] f = "Type" -> IssueTypes
      [] f = "FixVersions" -> VersionLists
      [] f = "NumActivities" -> Counts
      [] f = "Description" -> {"", "text"}
      [] f = "Approved" -> BOOLEAN
      [] f = "Owner" -> {"", "alice"}
      [] f = "NoQE" -> BOOLEAN
      [] f = "NoFeature" -> BOOLEAN
      [] f = "NoDoc" -> BOOLEAN
      [] f = "QAContact" -> {"", "bob"}
      [] f = "Acceptance" -> {"", "criteria"}
      [] f = "Prioritized" -> BOOLEAN
      [] f = "PointsCompletion" -> PointsCompletions
      [] f = "IssuesCompletion" -> Completions
      [] f = "Impediment" -> BOOLEAN
      [] f = "LinkedIssues" -> LinkedLists
      [] f = "ParentLink" -> {"", "INIT-1"}
      [] f = "IssueNoComponent" -> BOOLEAN
      [] f = "Component" -> {{}, {"Core"}}
      [] f = "Components" -> ComponentLists
      [] f = "CommentStatus" -> CheckResultStatus
      [] f = "Epic" -> {{}, {[Key |-> ""]}, {[Key |-> "EPIC-1"]}}
      [] f = "Design" -> {"", "doc"}

(* The values the model draws for each field.                              *)
FieldDomain == [k \in 1..Len(FieldNames) |-> FieldValues(FieldNames[k])]

(* An epic in the backlog with every field unset.                          *)
BlankSnapshot ==
    [ Status |-> IssueStatusBacklog, Type |-> IssueTypeEpic, FixVersions |-> <<>>,
      NumActivities |-> 0, Description |-> "", Approved |-> FALSE, Owner |-> "",
      NoQE |-> FALSE, NoFeature |-> FALSE, NoDoc |-> FALSE, QAContact |-> "",
      Acceptance |-> "", Prioritized |-> FALSE,
      PointsCompletion |-> [Status |-> 0, Total |-> 0, Unknown |-> 0],
      IssuesCompletion |-> [Status |-> 0, Total |-> 0],
      Impediment |-> FALSE, LinkedIssues |-> <<>>, ParentLink |-> "",
      IssueNoComponent |-> FALSE, Component |-> {}, Components |-> <<>>,
      CommentStatus |-> CheckStatusNone, Epic |-> {}, Design |-> "" ]

(* An epic in progress with every field filled in.                         *)
FullSnapshot ==
    [ Status |-> IssueStatusInProgress, Type |-> IssueTypeEpic,
      FixVersions |-> << <<"4", ".", "6">> >>,
      NumActivities |-> 1, Description |-> "text", Approved |-> TRUE,
      Owner |-> "alice", NoQE |-> FALSE, NoFeature |-> FALSE, NoDoc |-> FALSE,
      QAContact |-> "bob", Acceptance |-> "criteria", Prioritized |-> TRUE,
      PointsCompletion |-> [Status |-> 0, Total |-> 1, Unknown |-> 0],
      IssuesCompletion |-> [Status |-> 0, Total |-> 1],
      Impediment |-> FALSE,
      LinkedIssues |-> << [Status |-> IssueStatusInProgress,
                           Components |-> <<"Other">>, Impediment |-> FALSE] >>,
      ParentLink |-> "INIT-1", IssueNoComponent |-> FALSE, Component |-> {},
      Components |-> <<"Other", "Core">>, CommentStatus |-> CheckStatusGreen,
      Epic |-> {}, Design |-> "doc" ]

(* A finished story planned without QE, feature work and documentation,   *)
(* reported under the component "Core".                                    *)
StorySnapshot ==
    [ Status |-> IssueStatusDone, Type |-> IssueTypeStory,
      FixVersions |-> << <<"4", ".", "6">>, Alongside \o <<" ", "4">> >>,
      NumActivities |-> 0, Description |-> "text", Approved |-> FALSE,
      Owner |-> "alice", NoQE |-> TRUE, NoFeature |-> TRUE, NoDoc |-> TRUE,
      QAContact |-> "", Acceptance |-> "criteria", Prioritized |-> TRUE,
      PointsCompletion |-> [Status |-> 1, Total |-> 1, Unknown |-> 0],
      IssuesCompletion |-> [Status |-> 1, Total |-> 1],
      Impediment |-> FALSE, LinkedIssues |-> <<>>, ParentLink |-> "",
      IssueNoComponent |-> FALSE, Component |-> {"Core"},
      Components |-> <<"Core">>, CommentStatus |-> CheckStatusYellow,
      Epic |-> {[Key |-> "EPIC-1"]}, Design |-> "" ]

Bases == {BlankSnapshot, FullSnapshot, StorySnapshot}

(* The issues of a report: the bases and three issues that between them   *)
(* trigger the remaining checks.                                           *)
ObsoleteSnapshot == [BlankSnapshot EXCEPT !.Status = IssueStatusObsolete]

UnfinishedStorySnapshot ==
    [StorySnapshot EXCEPT !.QAContact = "bob", !.Epic = {},
                          !.IssuesCompletion = [Status |-> 0, Total |-> 1],
                          !.PointsCompletion = [Status |-> 0, Total |-> 1, Unknown |-> 1],
                          !.IssueNoComponent = TRUE]

BlockedEpicSnapshot ==
    [FullSnapshot EXCEPT !.Component = {"Core"}, !.Components = <<"Other">>,
                         !.Impediment = TRUE,
                         !.LinkedIssues =
                            << [Status |-> IssueStatusInProgress,
                                Components |-> <<"Other">>, Impediment |-> FALSE],
                               [Status |-> IssueStatusBacklog,
                                Components |-> <<"Core">>, Impediment |-> FALSE] >>]

ReportIssues ==
    Bases \cup {ObsoleteSnapshot, UnfinishedStorySnapshot, BlockedEpicSnapshot}

(* The increasing sequences of at most k field positions from `from` on.   *)
RECURSIVE Positions(_, _)
Positions(k, from) ==
    IF k = 0 THEN {<<>>}
    ELSE {<<>>} \cup
         UNION { {<<j>> \o js : js \in Positions(k - 1, j + 1)} :
                 j \in from..Len(FieldNames) }

(* One value for each of the field positions js.                           *)
RECURSIVE Choices(_)
Choices(js) ==
    IF js = <<>> THEN {<<>>}
    ELSE {<<v>> \o vs : v \in FieldDomain[Head(js)], vs \in Choices(Tail(js))}

(* Snapshot s with the fields at positions js set to the values vs.        *)
RECURSIVE Deviate(_, _, _)
Deviate(s, js, vs) ==
    IF js = <<>> THEN s
    ELSE Deviate([s EXCEPT ![FieldNames[Head(js)]] = Head(vs)], Tail(js), Tail(vs))

Deviations == Positions(MaxDeviations, 1)

(* A base snapshot changed in at most MaxDeviations fields.                *)
IsSnapshot(s) ==
    \E b \in Bases : \E js \in Deviations : \E vs \in Choices(js) :
        s = Deviate(b, js, vs)

----------------------------------------------------------------------------
(* State machine.                                                          *)

(* writeIssues calls NewCheckResult(a): the result is allocated            *)
(* (checks.go:49-52) and the Obsolete test is next.                        *)
InitEvaluation ==
    /\ IsSnapshot(a)
    /\ result = NewResult
    /\ pending = checks
    /\ pc = "NewCheckResult"
    /\ written = {}

(* A caller that owns a fresh CheckResult and uses its exported methods.   *)
InitClient ==
    /\ a = BlankSnapshot
    /\ result = NewResult
    /\ pending = <<>>
    /\ pc = "client"
    /\ written = {}

Init == InitEvaluation \/ InitClient

(* ObsoleteReturn without its return statement: the loop still runs.       *)
ObsoleteReturn_FallThrough ==
    /\ pc = "NewCheckResult"
    /\ InStatus(a, IssueStatusObsolete)
    /\ result' = AddMessage(result, "OBSOLETE")
    /\ pc' = "range"
    /\ UNCHANGED <<a, pending, written>>

(* checks.go:54-57 *)
ObsoleteReturn ==
    /\ pc = "NewCheckResult"
    /\ InStatus(a, IssueStatusObsolete)
    /\ result' = AddMessage(result, "OBSOLETE")
    /\ pc' = "returned"
    /\ UNCHANGED <<a, pending, written>>

(* checks.go:59-81 *)
BuildChecks ==
    /\ pc = "NewCheckResult"
    /\ ~InStatus(a, IssueStatusObsolete)
    /\ pc' = "range"
    /\ UNCHANGED <<a, result, pending, written>>

(* checks.go:83-85, one iteration *)
RunCheck ==
    /\ pc = "range"
    /\ pending # <<>>
    /\ result' = Call(Head(pending), result, a)
    /\ a' = SnapshotAfter(Head(pending), a)
    /\ pending' = Tail(pending)
    /\ UNCHANGED <<pc, written>>

(* The return statement reached with checks still to call.                *)
Return_Early ==
    /\ pc = "range"
    /\ pc' = "returned"
    /\ UNCHANGED <<a, result, pending, written>>

(* checks.go:87 *)
Return ==
    /\ pc = "range"
    /\ pending = <<>>
    /\ pc' = "returned"
    /\ UNCHANGED <<a, result, pending, written>>

(* jiracsv.go:31-45: the row of the issue goes to the writer; of the row   *)
(* the model keeps the diagnostic codes.                                   *)
WriteRow ==
    /\ pc = "returned"
    /\ written' = written \cup {result.Messages[k] : k \in 1..Len(result.Messages)}
    /\ pc' = "written"
    /\ UNCHANGED <<a, result, pending>>

(* checks.go:91-110 called directly *)
ClientSetReady ==
    /\ pc = "client"
    /\ \E ready \in BOOLEAN : result' = SetReady(result, ready)
    /\ UNCHANGED <<a, pending, pc, written>>

ClientSetStatus ==
    /\ pc = "client"
    /\ \E status \in CheckResultStatus : result' = SetStatus(result, status)
    /\ UNCHANGED <<a, pending, pc, written>>

ClientAddMessage ==
    /\ pc = "client"
    /\ Len(result.Messages) < MaxMessages
    /\ \E message \in {"NOVERSION", "NOTDONE", "custom"} :
          result' = AddMessage(result, message)
    /\ UNCHANGED <<a, pending, pc, written>>

Next ==
    \/ ObsoleteReturn
    \/ BuildChecks
    \/ RunCheck
    \/ Return
    \/ WriteRow
    \/ ClientSetReady
    \/ ClientSetStatus
    \/ ClientAddMessage

Spec == Init /\ [][Next]_vars

----------------------------------------------------------------------------
(* The same evaluation with the checks called in another order: the loop   *)
(* may call any of the first MaxWindow pending checks next.                *)

Min(x, y) == IF x <= y THEN x ELSE y

Without(s, k) == SubSeq(s, 1, k - 1) \o SubSeq(s, k + 1, Len(s))

InitReordered ==
    /\ a \in ReportIssues
    /\ result = NewResult
    /\ pending = checks
    /\ pc = "NewCheckResult"
    /\ written = {}

RunCheckAhead ==
    /\ pc = "range"
    /\ \E k \in 1..Min(MaxWindow, Len(pending)) :
          /\ result' = Call(pending[k], result, a)
          /\ a' = SnapshotAfter(pending[k], a)
          /\ pending' = Without(pending, k)
    /\ UNCHANGED <<pc, written>>

NextReordered ==
    \/ ObsoleteReturn
    \/ BuildChecks
    \/ RunCheckAhead
    \/ Return
    \/ WriteRow

SpecReordered == InitReordered /\ [][NextReordered]_vars


----------------------------------------------------------------------------
(* writeIssues over the issues of a report (jiracsv.go:26-47): after a row *)
(* is written the loop takes the next issue.                               *)

InitReport == InitReordered

(* The next issue evaluated into the CheckResult of the previous one.      *)
NextIssue_Reuse ==
    /\ pc = "written"
    /\ a' \in ReportIssues
    /\ result' = result
    /\ pending' = checks
    /\ pc' = "NewCheckResult"
    /\ UNCHANGED written

NextIssue ==
    /\ pc = "written"
    /\ a' \in ReportIssues
    /\ result' = NewResult
    /\ pending' = checks
    /\ pc' = "NewCheckResult"
    /\ UNCHANGED written

NextReport ==
    \/ ObsoleteReturn
    \/ BuildChecks
    \/ RunCheck
    \/ Return
    \/ WriteRow
    \/ NextIssue

SpecReport == InitReport /\ [][NextReport]_vars

(* NewCheckResult runs on one goroutine and calls nothing that waits       *)
(* (checks.go:48-88): a call under way takes its next step.  Whether       *)
(* writeIssues has a further issue is left open.                           *)
NextEvaluation == ObsoleteReturn \/ BuildChecks \/ RunCheck \/ Return

SpecReportFair == InitReport /\ [][NextReport]_vars /\ WF_vars(NextEvaluation)


----------------------------------------------------------------------------
(* A caller that runs NewCheckResult for several issues at once, one       *)
(* goroutine each.  In this specification a, result, pending and pc hold   *)
(* one value per evaluation: a[e] is the snapshot of evaluation e,         *)
(* result[e] the CheckResult it allocated (checks.go:49-52), pending[e]    *)
(* its slice of checks, bound to result[e] (checks.go:59-81).  The steps   *)
(* of the evaluations interleave check by check.                           *)

Evaluations == 1..MaxEvaluations

InitConcurrent ==
    /\ a \in [Evaluations -> ReportIssues]
    /\ result = [e \in Evaluations |-> NewResult]
    /\ pending = [e \in Evaluations |-> checks]
    /\ pc = [e \in Evaluations |-> "NewCheckResult"]
    /\ written = {}

(* checks.go:54-57 *)
EvalObsoleteReturn(e) ==
    /\ pc[e] = "NewCheckResult"
    /\ InStatus(a[e], IssueStatusObsolete)
    /\ result' = [result EXCEPT ![e] = AddMessage(result[e], "OBSOLETE")]
    /\ pc' = [pc EXCEPT ![e] = "returned"]
    /\ UNCHANGED <<a, pending, written>>

(* checks.go:59-81 *)
EvalBuildChecks(e) ==
    /\ pc[e] = "NewCheckResult"
    /\ ~InStatus(a[e], IssueStatusObsolete)
    /\ pc' = [pc EXCEPT ![e] = "range"]
    /\ UNCHANGED <<a, result, pending, written>>

(* The checks of every evaluation bound to one CheckResult.                *)
EvalRunCheck_Shared(e) ==
    /\ pc[e] = "range"
    /\ pending[e] # <<>>
    /\ result' = [o \in Evaluations |-> Call(Head(pending[e]), result[o], a[e])]
    /\ a' = [a EXCEPT ![e] = SnapshotAfter(Head(pending[e]), a[e])]
    /\ pending' = [pending EXCEPT ![e] = Tail(pending[e])]
    /\ UNCHANGED <<pc, written>>

(* checks.go:83-85, one iteration *)
EvalRunCheck(e) ==
    /\ pc[e] = "range"
    /\ pending[e] # <<>>
    /\ result' = [result EXCEPT ![e] = Call(Head(pending[e]), result[e], a[e])]
    /\ a' = [a EXCEPT ![e] = SnapshotAfter(Head(pending[e]), a[e])]
    /\ pending' = [pending EXCEPT ![e] = Tail(pending[e])]
    /\ UNCHANGED <<pc, written>>

(* checks.go:87 *)
EvalReturn(e) ==
    /\ pc[e] = "range"
    /\ pending[e] = <<>>
    /\ pc' = [pc EXCEPT ![e] = "returned"]
    /\ UNCHANGED <<a, result, pending, written>>

NextConcurrent ==
    \E e \in Evaluations :
        \/ EvalObsoleteReturn(e)
        \/ EvalBuildChecks(e)
        \/ EvalRunCheck(e)
        \/ EvalReturn(e)

SpecConcurrent == InitConcurrent /\ [][NextConcurrent]_vars

----------------------------------------------------------------------------
(* Properties.                                                             *)

Contains(seq, x) == \E k \in 1..Len(seq) : seq[k] = x

Count(seq, x) == Cardinality({k \in 1..Len(seq) : seq[k] = x})

(* The position of x in a sequence without repetitions, 0 when absent.     *)
IndexOf(seq, x) ==
    IF Contains(seq, x) THEN CHOOSE k \in 1..Len(seq) : seq[k] = x ELSE 0

(* seq lists members of ref, each once, in the order ref has them.         *)
InOrderOf(seq, ref) ==
    /\ \A k \in 1..Len(seq) : Contains(ref, seq[k])
    /\ \A k, l \in 1..Len(seq) : k < l => IndexOf(ref, seq[k]) < IndexOf(ref, seq[l])

Returned == pc = "returned"

Obsolete == InStatus(a, IssueStatusObsolete)

(* C1: an Obsolete snapshot returns exactly ready = true, severity = NONE  *)
(* and messages = <<"OBSOLETE">>, whatever its other fields hold, and no   *)
(* check has been called.                                                  *)
C1_ObsoleteShortCircuit ==
    (Returned /\ Obsolete) =>
        /\ result = [Ready |-> TRUE, Status |-> CheckStatusNone,
                     Messages |-> <<"OBSOLETE">>]
        /\ pending = checks

(* An Obsolete issue whose other fields would trigger checks has returned. *)
C1_Witness ==
    /\ Returned /\ Obsolete
    /\ a.Owner = "" /\ a.FixVersions = <<>> /\ a.Impediment

(* C2: no step of an evaluation and no call of SetReady, SetStatus or      *)
(* AddMessage, whatever its argument, turns ready from false to true or    *)
(* lowers the severity.                                                    *)
C2_Monotonic ==
    [][ /\ (~result.Ready => ~result'.Ready)
        /\ result'.Status >= result.Status ]_vars

(* A client holds a result that is not ready and RED; SetReady(true) and   *)
(* SetStatus with a lower level are its next calls.                        *)
C2_Witness ==
    /\ pc = "client"
    /\ ~result.Ready
    /\ result.Status = CheckStatusRed
    /\ Len(result.Messages) > 0


(* The codes in the order of the policy table of the specification.        *)
TableOrder ==
    << "ALONGSIDE", "NOVERSION", "MULTIVERSION", "NOSTORIES", "NODESCRIPTION",
       "NOACKS", "NODELIVERYOWNER", "NOQE", "NOFEATURE", "NODOC", "NOQEMISMATCH",
       "NOQACONTACT", "NOCRITERIA", "NOPRIORITY", "NOTSTARTED", "NOSTORYPOINTS",
       "IMPEDIMENT", "NOINITIATIVE", "ISSUENOCOMPONENT", "NOCOMPONENT", "NOTDONE",
       "NOSTATUSCOMMENT", "NOEPIC", "NOACTIVESTORIES", "NODESIGN" >>

(* The codes in the order the checks of the slice append them.             *)
SliceOrder ==
    << "ALONGSIDE", "NOVERSION", "MULTIVERSION", "NOSTORIES", "NODESCRIPTION",
       "NOACKS", "NOQE", "NOFEATURE", "NODOC", "NODELIVERYOWNER", "NOQEMISMATCH",
       "NOQACONTACT", "NOCRITERIA", "NOPRIORITY", "NOTSTARTED", "NOSTORYPOINTS",
       "IMPEDIMENT", "NOINITIATIVE", "ISSUENOCOMPONENT", "NOCOMPONENT", "NOTDONE",
       "NOACTIVESTORIES", "NOEPIC", "NOSTATUSCOMMENT", "NODESIGN" >>

(* C3 as stated: the messages of a non-Obsolete result follow the order    *)
(* of the policy table.                                                    *)
C3_TableOrder ==
    (Returned /\ ~Obsolete) => InOrderOf(result.Messages, TableOrder)

(* C3: the messages of a non-Obsolete result are codes of the checks in    *)
(* the order the slice of checks.go:59-81 calls them: the planning-flag    *)
(* codes NOQE, NOFEATURE, NODOC come before NODELIVERYOWNER, and           *)
(* NOACTIVESTORIES and NOEPIC come before NOSTATUSCOMMENT.                 *)
C3_SliceOrder ==
    (Returned /\ ~Obsolete) => InOrderOf(result.Messages, SliceOrder)

(* A result where both differences with the table show.                    *)
C3_Witness ==
    /\ Returned /\ ~Obsolete
    /\ Contains(result.Messages, "NOQE")
    /\ Contains(result.Messages, "NODELIVERYOWNER")
    /\ Contains(result.Messages, "NOEPIC")
    /\ Contains(result.Messages, "NOSTATUSCOMMENT")


(* The codes the checks append, OBSOLETE included.                         *)
Codes == {"OBSOLETE"} \cup {SliceOrder[k] : k \in 1..Len(SliceOrder)}

SameCodes(m1, m2) == \A c \in Codes : Count(m1, c) = Count(m2, c)

(* C4: with the checks called in another order, a non-Obsolete evaluation  *)
(* ends with the ready and the severity of the declared order, and with a  *)
(* permutation of its messages.                                            *)
C4_OrderIndependent ==
    (Returned /\ ~Obsolete) =>
        /\ result.Ready = NewCheckResult(a).Ready
        /\ result.Status = NewCheckResult(a).Status
        /\ Len(result.Messages) = Len(NewCheckResult(a).Messages)
        /\ SameCodes(result.Messages, NewCheckResult(a).Messages)

(* A reordered evaluation has returned its messages in another order than  *)
(* the declared one, after checks that raise to YELLOW and to RED.         *)
C4_Witness ==
    /\ Returned /\ ~Obsolete
    /\ result.Messages # NewCheckResult(a).Messages
    /\ Contains(result.Messages, "NOCOMPONENT")
    /\ Contains(result.Messages, "IMPEDIMENT")
    /\ IndexOf(result.Messages, "NOCOMPONENT") < IndexOf(result.Messages, "IMPEDIMENT")

(* C5: from any accumulator state, SetReady(false) twice is SetReady(false) *)
(* once, SetStatus(X) twice is SetStatus(X) once, and SetStatus(X) and     *)
(* SetStatus(Y) in either order leave the severity at the maximum of the   *)
(* current severity, X and Y.                                              *)
Max(x, y) == IF x >= y THEN x ELSE y

C5_Idempotent ==
    /\ SetReady(SetReady(result, FALSE), FALSE) = SetReady(result, FALSE)
    /\ ~SetReady(result, FALSE).Ready
    /\ \A x \in CheckResultStatus :
          SetStatus(SetStatus(result, x), x) = SetStatus(result, x)
    /\ \A x, y \in CheckResultStatus :
          /\ SetStatus(SetStatus(result, x), y).Status = Max(result.Status, Max(x, y))
          /\ SetStatus(SetStatus(result, x), y) = SetStatus(SetStatus(result, y), x)

(* A client's accumulator that already went not ready and YELLOW.          *)
C5_Witness ==
    /\ pc = "client"
    /\ ~result.Ready
    /\ result.Status = CheckStatusYellow
    /\ Len(result.Messages) = 2


(* What remains of seq when only the members of S are kept.                *)
Restrict(seq, S) == LET keep(x) == x \in S IN SelectSeq(seq, keep)

NotReadyRed(code) ==
    /\ ~result.Ready
    /\ result.Status = CheckStatusRed
    /\ Contains(result.Messages, code)

(* C6: in a non-Obsolete result an empty owner, a missing QA contact       *)
(* without the no-QE flag, empty acceptance criteria and an unset priority *)
(* each force ready = false and severity = RED and leave their code; all   *)
(* four together leave the four codes in the order NODELIVERYOWNER,        *)
(* NOQACONTACT, NOCRITERIA, NOPRIORITY.                                    *)
C6_MissingDeliveryData ==
    (Returned /\ ~Obsolete) =>
        /\ a.Owner = "" => NotReadyRed("NODELIVERYOWNER")
        /\ (~a.NoQE /\ a.QAContact = "") => NotReadyRed("NOQACONTACT")
        /\ a.Acceptance = "" => NotReadyRed("NOCRITERIA")
        /\ ~a.Prioritized => NotReadyRed("NOPRIORITY")
        /\ (a.Owner = "" /\ ~a.NoQE /\ a.QAContact = "" /\ a.Acceptance = ""
              /\ ~a.Prioritized) =>
              Restrict(result.Messages,
                       {"NODELIVERYOWNER", "NOQACONTACT", "NOCRITERIA", "NOPRIORITY"})
                = <<"NODELIVERYOWNER", "NOQACONTACT", "NOCRITERIA", "NOPRIORITY">>

(* The QA contact alone is missing: nothing else raises the severity.      *)
C6_Witness ==
    /\ Returned /\ ~Obsolete
    /\ a.Owner # "" /\ a.Acceptance # "" /\ a.Prioritized
    /\ ~a.NoQE /\ a.QAContact = ""
    /\ Restrict(result.Messages, {"NOTSTARTED", "IMPEDIMENT", "NOTDONE", "NOACTIVESTORIES"}) = <<>>
    /\ a.CommentStatus # CheckStatusRed
    /\ result.Status = CheckStatusRed

DoneInconsistent ==
    /\ InStatus(a, IssueStatusDone)
    /\ \/ a.IssuesCompletion.Status # a.IssuesCompletion.Total
       \/ a.PointsCompletion.Status # a.PointsCompletion.Total

(* C7: NOTDONE is in the messages of a result exactly when the status is   *)
(* Done and one of the two completions has status # total, and the         *)
(* severity is then RED; a Done issue with both completions consistent     *)
(* has no NOTDONE and a severity of GREEN at least.                        *)
C7_DoneConsistency ==
    Returned =>
        /\ Contains(result.Messages, "NOTDONE") <=> DoneInconsistent
        /\ DoneInconsistent => result.Status = CheckStatusRed
        /\ (InStatus(a, IssueStatusDone) /\ ~DoneInconsistent) =>
              result.Status >= CheckStatusGreen

(* A Done issue whose points completion alone is inconsistent.             *)
C7_Witness ==
    /\ Returned
    /\ InStatus(a, IssueStatusDone)
    /\ a.IssuesCompletion.Status = a.IssuesCompletion.Total
    /\ a.PointsCompletion.Status # a.PointsCompletion.Total
    /\ Contains(result.Messages, "NOTDONE")

ComponentMissing ==
    /\ a.Component # {}
    /\ \A c \in a.Component : ~HasComponent(a, c)

(* C8: NOCOMPONENT is in the messages of a non-Obsolete result exactly     *)
(* when a target component is configured and is not among the components   *)
(* of the issue; the result is then not ready and YELLOW at least.  With   *)
(* no target component there is no NOCOMPONENT.                            *)
C8_ComponentFilter ==
    (Returned /\ ~Obsolete) =>
        /\ Contains(result.Messages, "NOCOMPONENT") <=> ComponentMissing
        /\ ComponentMissing => (~result.Ready /\ result.Status >= CheckStatusYellow)
        /\ a.Component = {} => ~Contains(result.Messages, "NOCOMPONENT")

(* The target "Core" is configured and the issue is under "Other" alone.   *)
C8_Witness ==
    /\ Returned /\ ~Obsolete
    /\ a.Component = {"Core"}
    /\ a.Components = <<"Other">>
    /\ Contains(result.Messages, "NOCOMPONENT")
    /\ ~result.Ready

(* The linked issues that count for checkStartedStories.                   *)
ActiveChild(li) ==
    /\ a.Component # {} => \A c \in a.Component : HasComponent(li, c)
    /\ IsActive(li) \/ InStatus(li, IssueStatusDone)

NoActiveChildren ==
    /\ IsType(a, IssueTypeEpic)
    /\ IsActive(a)
    /\ ~\E k \in 1..Len(a.LinkedIssues) : ActiveChild(a.LinkedIssues[k])

(* C9: an Epic in an active status none of whose linked issues (those of   *)
(* the target component, when one is configured) is active or Done ends    *)
(* RED with NOACTIVESTORIES; an issue that is no Epic or not active never  *)
(* gets NOACTIVESTORIES; and checkStartedStories leaves ready as it is.    *)
C9_NoActiveStories ==
    /\ Returned =>
          /\ NoActiveChildren =>
                (result.Status = CheckStatusRed
                   /\ Contains(result.Messages, "NOACTIVESTORIES"))
          /\ (~IsType(a, IssueTypeEpic) \/ ~IsActive(a)) =>
                ~Contains(result.Messages, "NOACTIVESTORIES")
    /\ (pc = "range" /\ pending # <<>> /\ Head(pending) = "checkStartedStories") =>
          Call(Head(pending), result, a).Ready = result.Ready

(* An active Epic whose only active child is outside the target component. *)
C9_Witness ==
    /\ Returned
    /\ a.Component = {"Core"}
    /\ Len(a.LinkedIssues) = 1
    /\ IsActive(a.LinkedIssues[1])
    /\ ~HasComponent(a.LinkedIssues[1], "Core")
    /\ result.Ready
    /\ Contains(result.Messages, "NOACTIVESTORIES")


(* The codes of the policy table, the Obsolete short-circuit included.     *)
TableCodes == {"OBSOLETE"} \cup {TableOrder[k] : k \in 1..Len(TableOrder)}

InVocabulary ==
    /\ \A k \in 1..Len(result.Messages) : result.Messages[k] \in TableCodes
    /\ written \subseteq TableCodes

(* C10 as stated: every message is a code of the policy table and the      *)
(* codes the engine emits are 22.                                          *)
C10_TwentyTwoCodes ==
    /\ pc # "client" => InVocabulary
    /\ Cardinality(written) <= 22

(* C10: every message of every result is a code of the policy table, and   *)
(* the codes the engine emits are the 26 of that table (OBSOLETE and the   *)
(* 25 codes of the checks).                                                *)
C10_Vocabulary ==
    /\ pc # "client" => InVocabulary
    /\ Cardinality(written) <= 26

(* Over the issues of a report every one of the 26 codes has been written. *)
C10_Witness ==
    /\ written = TableCodes
    /\ Cardinality(written) = 26


(* C11: the result of an evaluation is a function of its snapshot alone:   *)
(* whatever was evaluated and written before, the evaluation of a snapshot *)
(* returns the ready, severity and messages of NewCheckResult on it, so    *)
(* two evaluations of one snapshot return the same.                        *)
C11_Deterministic ==
    Returned => result = NewCheckResult(a)

(* The unfinished story, the one issue of the report with NOQEMISMATCH,    *)
(* has been evaluated and written, and has been evaluated once more.       *)
C11_Witness ==
    /\ Returned
    /\ a = UnfinishedStorySnapshot
    /\ "NOQEMISMATCH" \in written
    /\ "NOVERSION" \in written


(* C12: when evaluations interleave check by check, a step changes the     *)
(* CheckResult of one evaluation at most and no snapshot, and every        *)
(* evaluation returns what it returns when it runs alone.                  *)
C12_Isolated ==
    /\ [](\A e \in Evaluations :
            pc[e] = "returned" => result[e] = NewCheckResult(a[e]))
    /\ [][ /\ a' = a
           /\ \A e, o \in Evaluations :
                 (result'[e] # result[e] /\ o # e) => result'[o] = result[o] ]_vars

(* Two evaluations that both append messages have returned, the second     *)
(* having started before the first finished.                               *)
C12_Witness ==
    /\ a[1] = BlankSnapshot /\ a[2] = UnfinishedStorySnapshot
    /\ pc[1] = "returned"
    /\ pc[2] = "range" /\ Len(pending[2]) = 1
    /\ Len(result[2].Messages) > 0


AnyOf(seq, S) == \E c \in S : Contains(seq, c)

NotReadyCodes ==
    { "NOVERSION", "NOSTORIES", "NODESCRIPTION", "NOACKS", "NODELIVERYOWNER",
      "NOQEMISMATCH", "NOQACONTACT", "NOCRITERIA", "NOPRIORITY", "NOINITIATIVE",
      "ISSUENOCOMPONENT", "NOCOMPONENT", "NOEPIC", "NODESIGN" }

(* C13: a non-Obsolete result is not ready exactly when its messages hold  *)
(* one of NOVERSION, NOSTORIES, NODESCRIPTION, NOACKS, NODELIVERYOWNER,    *)
(* NOQEMISMATCH, NOQACONTACT, NOCRITERIA, NOPRIORITY, NOINITIATIVE,        *)
(* ISSUENOCOMPONENT, NOCOMPONENT, NOEPIC, NODESIGN; the other codes leave  *)
(* it ready.                                                               *)
C13_Readiness ==
    (Returned /\ ~Obsolete) =>
        (~result.Ready <=> AnyOf(result.Messages, NotReadyCodes))

(* A result that is still ready with an impediment on an unstarted issue.  *)
C13_Witness ==
    /\ Returned /\ ~Obsolete
    /\ result.Ready
    /\ Contains(result.Messages, "IMPEDIMENT")
    /\ Contains(result.Messages, "NOTSTARTED")

RedCodes ==
    { "NODELIVERYOWNER", "NOQACONTACT", "NOCRITERIA", "NOPRIORITY", "IMPEDIMENT",
      "NOTDONE", "NOACTIVESTORIES" }

YellowCodes == {"NOTSTARTED", "NOCOMPONENT"}

(* The severity the codes of the messages and the snapshot account for.    *)
ExpectedSeverity ==
    Max(a.CommentStatus,
        Max(IF AnyOf(result.Messages, RedCodes) THEN CheckStatusRed ELSE CheckStatusNone,
            Max(IF AnyOf(result.Messages, YellowCodes)
                THEN CheckStatusYellow ELSE CheckStatusNone,
                IF InStatus(a, IssueStatusDone) /\ ~DoneInconsistent
                THEN CheckStatusGreen ELSE CheckStatusNone)))

(* C14: the severity of a non-Obsolete result is the maximum of NONE, the  *)
(* comment severity, RED when a RED code is in the messages, YELLOW when   *)
(* NOTSTARTED or NOCOMPONENT is, and GREEN for a Done issue with           *)
(* consistent completions.                                                 *)
C14_Severity ==
    (Returned /\ ~Obsolete) => result.Status = ExpectedSeverity

(* YELLOW from NOTSTARTED alone, above a GREEN comment.                     *)
C14_Witness ==
    /\ Returned /\ ~Obsolete
    /\ a.CommentStatus = CheckStatusGreen
    /\ Contains(result.Messages, "NOTSTARTED")
    /\ ~Contains(result.Messages, "NOCOMPONENT")
    /\ result.Status = CheckStatusYellow


AtCheck(f) == pc = "range" /\ pending # <<>> /\ Head(pending) = f

(* C15: with a comment severity of NONE checkStatusComment appends         *)
(* NOSTATUSCOMMENT and leaves ready and severity; otherwise it appends     *)
(* nothing, leaves ready and raises the severity to the comment severity   *)
(* at least, never lowering what was accumulated; the final severity is    *)
(* at least the comment severity.                                          *)
C15_StatusComment ==
    /\ [][ AtCheck("checkStatusComment") =>
              IF a.CommentStatus = CheckStatusNone
              THEN /\ result'.Messages = result.Messages \o <<"NOSTATUSCOMMENT">>
                   /\ result'.Ready = result.Ready
                   /\ result'.Status = result.Status
              ELSE /\ result'.Messages = result.Messages
                   /\ result'.Ready = result.Ready
                   /\ result'.Status >= a.CommentStatus
                   /\ result'.Status >= result.Status ]_vars
    /\ []((Returned /\ ~Obsolete) =>
             /\ result.Status >= a.CommentStatus
             /\ Contains(result.Messages, "NOSTATUSCOMMENT")
                   <=> a.CommentStatus = CheckStatusNone)

(* checkStatusComment has run with a GREEN comment on a RED accumulator.   *)
C15_Witness ==
    /\ AtCheck("checkDesign")
    /\ a.CommentStatus = CheckStatusGreen
    /\ result.Status = CheckStatusRed
    /\ ~Contains(result.Messages, "NOSTATUSCOMMENT")

(* The trigger of each check, as the policy table states it; the rows with *)
(* an else part (Done consistency, Status comment) count both parts.       *)
Triggered(f) ==
    CASE f = "checkAlongside" ->
            \E k \in 1..Len(a.FixVersions) : HasPrefix(a.FixVersions[k], Alongside)
      [] f = "checkVersion" -> Len(a.FixVersions) # 1
      [] f = "checkActivities" -> IsType(a, IssueTypeEpic) /\ a.NumActivities = 0
      [] f = "checkDescription" -> a.Description = ""
      [] f = "checkApprovals" -> IsType(a, IssueTypeEpic) /\ ~Approved(a)
      [] f = "checkPlanningFlags" -> a.NoQE \/ a.NoFeature \/ a.NoDoc
      [] f = "checkDeliveryOwner" -> a.Owner = ""
      [] f = "checkQAContact" -> a.NoQE <=> a.QAContact # ""
      [] f = "checkAcceptanceCriteria" -> a.Acceptance = ""
      [] f = "checkPriority" -> ~IsPrioritized(a)
      [] f = "checkStarted" -> ~IsActive(a) /\ ~InStatus(a, IssueStatusDone)
      [] f = "checkStoryPoints" -> a.PointsCompletion.Unknown > 0
      [] f = "checkImpediment" -> a.Impediment \/ AnyImpediment(a.LinkedIssues)
      [] f = "checkInitiative" -> IsType(a, IssueTypeEpic) /\ a.ParentLink = ""
      [] f = "checkIssueComponent" -> a.IssueNoComponent
      [] f = "checkComponent" -> ComponentMissing
      [] f = "checkDone" -> InStatus(a, IssueStatusDone)
      [] f = "checkStartedStories" -> NoActiveChildren
      [] f = "checkLinkedEpic" ->
            IsType(a, IssueTypeStory) /\ (a.Epic = {} \/ \E e \in a.Epic : e.Key = "")
      [] f = "checkStatusComment" -> TRUE
      [] f = "checkDesign" -> ~a.NoFeature /\ a.Design = ""

FrameOfMerges ==
    /\ \A message \in {"NOVERSION", "custom"} :
          LET r == AddMessage(result, message)
          IN  /\ Len(r.Messages) = Len(result.Messages) + 1
              /\ SubSeq(r.Messages, 1, Len(result.Messages)) = result.Messages
              /\ r.Messages[Len(r.Messages)] = message
              /\ r.Ready = result.Ready
              /\ r.Status = result.Status
    /\ \A ready \in BOOLEAN :
          /\ SetReady(result, ready).Status = result.Status
          /\ SetReady(result, ready).Messages = result.Messages
    /\ \A status \in CheckResultStatus :
          /\ SetStatus(result, status).Ready = result.Ready
          /\ SetStatus(result, status).Messages = result.Messages

(* C16: from every accumulator an evaluation or a client reaches,          *)
(* AddMessage appends its code at the end and leaves ready and severity,   *)
(* SetReady leaves severity and messages, SetStatus leaves ready and       *)
(* messages; and a check whose trigger does not hold leaves the            *)
(* accumulator as it was.                                                  *)
C16_Frame ==
    /\ []FrameOfMerges
    /\ [][ \A f \in Elements(checks) :
              (AtCheck(f) /\ ~Triggered(f)) => result' = result ]_vars

(* checkStartedStories has run untriggered on an accumulator that already  *)
(* holds messages, is not ready and is RED.                                *)
C16_Witness ==
    /\ AtCheck("checkLinkedEpic")
    /\ ~Triggered("checkStartedStories")
    /\ Len(result.Messages) > 1
    /\ ~result.Ready
    /\ result.Status = CheckStatusRed


Evaluating == pc \in {"NewCheckResult", "range", "returned"}

(* C17: no step of an evaluation changes a field of the snapshot, the      *)
(* linked issues that checkStartedStories filters included: from the call  *)
(* of NewCheckResult to the written row the snapshot stays the report      *)
(* issue it was.                                                           *)
C17_SnapshotReadOnly ==
    /\ [][ Evaluating => a' = a ]_vars
    /\ [](a \in ReportIssues)

(* checkStartedStories has filtered two linked issues by component, then   *)
(* by status, and the evaluation has returned.                             *)
C17_Witness ==
    /\ Returned
    /\ IsType(a, IssueTypeEpic) /\ IsActive(a)
    /\ a.Component = {"Core"}
    /\ Len(a.LinkedIssues) = 2
    /\ ~HasComponent(a.LinkedIssues[1], "Core")
    /\ HasComponent(a.LinkedIssues[2], "Core")
    /\ Contains(result.Messages, "NOACTIVESTORIES")


(* The checks called so far by the evaluation under way.                   *)
Applied == SubSeq(checks, 1, Len(checks) - Len(pending))

(* C18: every evaluation returns; until then the checks called are a       *)
(* prefix of the slice, each step of the loop calls the next one of the    *)
(* slice once, and the result is returned after all 21 of them for a       *)
(* non-Obsolete snapshot and after none for an Obsolete one.               *)
C18_Terminates ==
    /\ (pc = "NewCheckResult") ~> Returned
    /\ [](Len(pending) <= Len(checks) /\ Applied \o pending = checks)
    /\ [][ (pc = "range" /\ pending # <<>>) =>
              /\ pending' = Tail(pending)
              /\ result' = Call(checks[Len(Applied) + 1], result, a) ]_vars
    /\ [](Returned => Applied = IF Obsolete THEN <<>> ELSE checks)
    /\ [](pc = "NewCheckResult" => Applied = <<>>)

(* A non-Obsolete Story has been through the whole slice and returned.     *)
C18_Witness ==
    /\ Returned /\ ~Obsolete
    /\ IsType(a, IssueTypeStory)
    /\ Applied = checks
    /\ Len(result.Messages) > 2


Both(c, d) == Contains(result.Messages, c) /\ Contains(result.Messages, d)

ExclusivePairs ==
    { <<"NOVERSION", "MULTIVERSION">>, <<"NOVERSION", "ALONGSIDE">>,
      <<"NOQEMISMATCH", "NOQACONTACT">>, <<"NOQACONTACT", "NOQE">>,
      <<"NODESIGN", "NOFEATURE">>, <<"NOTSTARTED", "NOTDONE">>,
      <<"NOTSTARTED", "NOACTIVESTORIES">>, <<"NOEPIC", "NOSTORIES">>,
      <<"NOEPIC", "NOACKS">>, <<"NOEPIC", "NOINITIATIVE">>,
      <<"NOEPIC", "NOACTIVESTORIES">> }
      \cup {<<"OBSOLETE", c>> : c \in Codes \ {"OBSOLETE"}}

(* C19: no returned result holds both codes of NOVERSION/MULTIVERSION,     *)
(* NOVERSION/ALONGSIDE, NOQEMISMATCH/NOQACONTACT, NOQACONTACT/NOQE,        *)
(* NODESIGN/NOFEATURE, NOTSTARTED/NOTDONE, NOTSTARTED/NOACTIVESTORIES,     *)
(* NOEPIC with NOSTORIES, NOACKS, NOINITIATIVE or NOACTIVESTORIES, or      *)
(* OBSOLETE with another code; and NOQEMISMATCH comes with NOQE.           *)
C19_Exclusive ==
    Returned =>
        /\ \A p \in ExclusivePairs : ~Both(p[1], p[2])
        /\ Contains(result.Messages, "NOQEMISMATCH") => Contains(result.Messages, "NOQE")

(* One code of several pairs in one result, NOQEMISMATCH with NOQE.        *)
C19_Witness ==
    /\ Returned
    /\ Both("NOQEMISMATCH", "NOQE")
    /\ Both("NOEPIC", "NOFEATURE")
    /\ Both("MULTIVERSION", "ALONGSIDE")

(* The check that appends each code (checks.go:112-317).                   *)
Emitter(c) ==
    CASE c = "ALONGSIDE" -> "checkAlongside"
      [] c \in {"NOVERSION", "MULTIVERSION"} -> "checkVersion"
      [] c = "NOSTORIES" -> "checkActivities"
      [] c = "NODESCRIPTION" -> "checkDescription"
      [] c = "NOACKS" -> "checkApprovals"
      [] c \in {"NOQE", "NOFEATURE", "NODOC"} -> "checkPlanningFlags"
      [] c = "NODELIVERYOWNER" -> "checkDeliveryOwner"
      [] c \in {"NOQEMISMATCH", "NOQACONTACT"} -> "checkQAContact"
      [] c = "NOCRITERIA" -> "checkAcceptanceCriteria"
      [] c = "NOPRIORITY" -> "checkPriority"
      [] c = "NOTSTARTED" -> "checkStarted"
      [] c = "NOSTORYPOINTS" -> "checkStoryPoints"
      [] c = "IMPEDIMENT" -> "checkImpediment"
      [] c = "NOINITIATIVE" -> "checkInitiative"
      [] c = "ISSUENOCOMPONENT" -> "checkIssueComponent"
      [] c = "NOCOMPONENT" -> "checkComponent"
      [] c = "NOTDONE" -> "checkDone"
      [] c = "NOACTIVESTORIES" -> "checkStartedStories"
      [] c = "NOEPIC" -> "checkLinkedEpic"
      [] c = "NOSTATUSCOMMENT" -> "checkStatusComment"
      [] c = "NODESIGN" -> "checkDesign"
      [] OTHER -> "NewCheckResult"

(* C20: each code occurs at most once in a returned result, and every code *)
(* a step of the loop appends is a code of the one check called by that    *)
(* step and was not in the messages before; several fix versions named     *)
(* "Alongside..." leave one ALONGSIDE.                                     *)
C20_NoDuplicates ==
    /\ [](Returned => \A c \in Codes : Count(result.Messages, c) <= 1)
    /\ [][ \A f \in Elements(checks) : AtCheck(f) =>
              \A k \in (Len(result.Messages) + 1)..Len(result'.Messages) :
                  /\ Emitter(result'.Messages[k]) = f
                  /\ Count(result'.Messages, result'.Messages[k]) = 1 ]_vars

(* Two fix versions that both start with "Alongside", one ALONGSIDE.       *)
C20_Witness ==
    /\ Returned
    /\ Len(a.FixVersions) = 2
    /\ HasPrefix(a.FixVersions[1], Alongside)
    /\ HasPrefix(a.FixVersions[2], Alongside)
    /\ Count(result.Messages, "ALONGSIDE") = 1
    /\ Contains(result.Messages, "MULTIVERSION")

====
